---- MODULE Spec2Model ----
(***************************************************************************)
(* A model of mcpdevmcp: six MCP tools that proxy to the MCP Inspector CLI. *)
(* One tool call validates its input (zod schema), builds an argument       *)
(* vector (buildCliArgs), spawns one subprocess under a timeout             *)
(* (execCommand), decodes its stdout as JSON (runInspectorCli) and wraps    *)
(* the outcome in a response (the registered handler).                      *)
(*                                                                          *)
(* Text that the program inspects character by character (the stdout and    *)
(* stderr of the subprocess) is a sequence of lexemes; text that it only    *)
(* builds and passes on (arguments, messages, payloads) is a string.        *)
(***************************************************************************)
EXTENDS Integers, Sequences, FiniteSets, TLC

\* ------------------------------------------------------------------ bounds

\* Number of tool calls that may be in flight.
NumCalls == 2

\* Most stdout chunks ("data" events on proc.stdout) of one subprocess.
MaxOut == 2

\* Most stderr chunks ("data" events on proc.stderr) of one subprocess.
MaxErr == 2

Calls == 1..NumCalls

\* ------------------------------------------------------- JavaScript values

\* An optional value: <<>> is undefined / null, <<v>> is v.
None == <<>>

Some(v) == <<v>>

\* A JavaScript value.  t is its type; a number n is held in tenths (so that
\* a non-integer such as 1500.5 can be an input); an object is its keys and
\* its values (items), in insertion order; an array is its items.
JsValue(t, n, s, keys, items) ==
    [t |-> t, n |-> n, s |-> s, keys |-> keys, items |-> items]

Undefined == JsValue("undefined", 0, "", <<>>, <<>>)

Num(i) == JsValue("num", 10 * i, "", <<>>, <<>>)

NumTenths(tenths) == JsValue("num", tenths, "", <<>>, <<>>)

Str(s) == JsValue("str", 0, s, <<>>, <<>>)

Arr(items) == JsValue("arr", 0, "", <<>>, items)

Obj(keys, items) == JsValue("obj", 0, "", keys, items)

EmptyObj == Obj(<<>>, <<>>)

\* Number -> string, as a template literal or JSON.stringify prints it.
NumText(tenths) ==
    LET a == IF tenths < 0 THEN -tenths ELSE tenths
        sign == IF tenths < 0 THEN "-" ELSE ""
    IN  IF a % 10 = 0
        THEN sign \o ToString(a \div 10)
        ELSE sign \o ToString(a \div 10) \o "." \o ToString(a % 10)

\* A string literal of a JSON text.
Quote(s) == "\"" \o s \o "\""

\* The concatenation of the strings of a sequence.
RECURSIVE Join(_)
Join(toks) == IF toks = <<>> THEN "" ELSE Head(toks) \o Join(Tail(toks))

\* The concatenation of the sequences of a sequence.
RECURSIVE Flatten(_)
Flatten(chunks) ==
    IF chunks = <<>> THEN <<>> ELSE Head(chunks) \o Flatten(Tail(chunks))

\* ------------------------------------------------------------ JSON (V8)

\* The lexemes of the texts a subprocess prints.
WhiteSpace == {" ", "\n", "\t"}

StringAtoms == {"tools", "content"}

Digits == 0..9

IsNumLex(tok) == \E d \in Digits : tok = ToString(d)

NumOfLex(tok) == CHOOSE d \in Digits : tok = ToString(d)

IsStrLex(tok) == \E s \in StringAtoms : tok = Quote(s)

StrOfLex(tok) == CHOOSE s \in StringAtoms : tok = Quote(s)

\* String.prototype.trim: whitespace removed at both ends.
RECURSIVE TrimStart(_)
TrimStart(toks) ==
    IF toks # <<>> /\ Head(toks) \in WhiteSpace THEN TrimStart(Tail(toks)) ELSE toks

RECURSIVE TrimEnd(_)
TrimEnd(toks) ==
    IF toks # <<>> /\ toks[Len(toks)] \in WhiteSpace
    THEN TrimEnd(SubSeq(toks, 1, Len(toks) - 1))
    ELSE toks

Trim(toks) == TrimEnd(TrimStart(toks))

\* The first position at or after i that holds no whitespace.
RECURSIVE SkipWs(_, _)
SkipWs(toks, i) ==
    IF i <= Len(toks) /\ toks[i] \in WhiteSpace THEN SkipWs(toks, i + 1) ELSE i

\* A parse step's result: the value and the position after it, or the
\* position of the offending lexeme.
Parsed(v, next) == [ok |-> TRUE, v |-> v, next |-> next]

SyntaxErrorAt(i) == [ok |-> FALSE, v |-> Undefined, next |-> i]

\* obj[key] = v: a repeated key keeps its place and takes the later value.
SetMember(keys, items, key, v) ==
    IF \E i \in 1..Len(keys) : keys[i] = key
    THEN LET i == CHOOSE j \in 1..Len(keys) : keys[j] = key
         IN  [keys |-> keys, items |-> [items EXCEPT ![i] = v]]
    ELSE [keys |-> Append(keys, key), items |-> Append(items, v)]

RECURSIVE ParseValue(_, _)
RECURSIVE ParseElements(_, _, _)
RECURSIVE ParseMembers(_, _, _, _)

\* value ::= number | string | "[" elements "]" | "{" members "}"
ParseValue(toks, i0) ==
    LET i == SkipWs(toks, i0)
    IN  IF i > Len(toks) THEN SyntaxErrorAt(i)
        ELSE IF IsNumLex(toks[i]) THEN Parsed(Num(NumOfLex(toks[i])), i + 1)
        ELSE IF IsStrLex(toks[i]) THEN Parsed(Str(StrOfLex(toks[i])), i + 1)
        ELSE IF toks[i] = "["
             THEN LET j == SkipWs(toks, i + 1)
                  IN  IF j <= Len(toks) /\ toks[j] = "]"
                      THEN Parsed(Arr(<<>>), j + 1)
                      ELSE ParseElements(toks, j, <<>>)
        ELSE IF toks[i] = "{"
             THEN LET j == SkipWs(toks, i + 1)
                  IN  IF j <= Len(toks) /\ toks[j] = "}"
                      THEN Parsed(EmptyObj, j + 1)
                      ELSE ParseMembers(toks, j, <<>>, <<>>)
        ELSE SyntaxErrorAt(i)

ParseElements(toks, i, acc) ==
    LET r == ParseValue(toks, i)
        j == SkipWs(toks, r.next)
    IN  IF ~r.ok THEN r
        ELSE IF j > Len(toks) THEN SyntaxErrorAt(j)
        ELSE IF toks[j] = "," THEN ParseElements(toks, j + 1, Append(acc, r.v))
        ELSE IF toks[j] = "]" THEN Parsed(Arr(Append(acc, r.v)), j + 1)
        ELSE SyntaxErrorAt(j)

ParseMembers(toks, i0, keys, items) ==
    LET i == SkipWs(toks, i0)
        c == SkipWs(toks, i + 1)
        r == ParseValue(toks, c + 1)
        j == SkipWs(toks, r.next)
        m == SetMember(keys, items, StrOfLex(toks[i]), r.v)
    IN  IF i > Len(toks) \/ ~IsStrLex(toks[i]) THEN SyntaxErrorAt(i)
        ELSE IF c > Len(toks) \/ toks[c] # ":" THEN SyntaxErrorAt(c)
        ELSE IF ~r.ok THEN r
        ELSE IF j > Len(toks) THEN SyntaxErrorAt(j)
        ELSE IF toks[j] = "," THEN ParseMembers(toks, j + 1, m.keys, m.items)
        ELSE IF toks[j] = "}" THEN Parsed(Obj(m.keys, m.items), j + 1)
        ELSE SyntaxErrorAt(j)

\* JSON.parse: one value, whitespace around it, nothing after it.
JsonParse(toks) ==
    LET r == ParseValue(toks, 1)
        j == SkipWs(toks, r.next)
    IN  IF ~r.ok THEN r
        ELSE IF j <= Len(toks) THEN SyntaxErrorAt(j)
        ELSE r

\* The message of the SyntaxError JSON.parse throws at lexeme i of toks.
SyntaxErrorMessage(toks, i) ==
    IF i > Len(toks)
    THEN "Unexpected end of JSON input"
    ELSE "Unexpected token " \o toks[i] \o " in JSON at position " \o ToString(i - 1)

\* gap repeated depth times.
RECURSIVE Indent(_, _)
Indent(gap, depth) == IF depth = 0 THEN "" ELSE gap \o Indent(gap, depth - 1)

\* JSON.stringify(v, null, gap): gap = "" is the compact form.
RECURSIVE Stringify(_, _, _)
RECURSIVE StringifyItems(_, _, _, _, _)
Stringify(v, gap, depth) ==
    LET nl == IF gap = "" THEN "" ELSE "\n"
        open == IF v.t = "arr" THEN "[" ELSE "{"
        close == IF v.t = "arr" THEN "]" ELSE "}"
    IN  IF v.t = "num" THEN NumText(v.n)
        ELSE IF v.t = "str" THEN Quote(v.s)
        ELSE IF v.items = <<>> THEN open \o close
        ELSE open \o nl \o StringifyItems(v, 1, gap, depth + 1, nl)
                  \o nl \o Indent(gap, depth) \o close

StringifyItems(v, i, gap, depth, nl) ==
    LET key == IF v.t = "obj"
               THEN Quote(v.keys[i]) \o (IF gap = "" THEN ":" ELSE ": ")
               ELSE ""
        item == Indent(gap, depth) \o key \o Stringify(v.items[i], gap, depth)
    IN  IF i = Len(v.items) THEN item
        ELSE item \o "," \o nl \o StringifyItems(v, i + 1, gap, depth, nl)

\* ------------------------------------------------- utils/result.ts

\* The closed set of error kinds (types.ts).
InspectorErrorKinds ==
    {"SPAWN_FAILED", "EXECUTION_FAILED", "PARSE_FAILED", "TIMEOUT",
     "INVALID_RESPONSE", "CONNECTION_FAILED"}

\* inspectorError(kind, message, details?): details is optional.
inspectorError(kind, message, details) ==
    [kind |-> kind, message |-> message, details |-> details]

\* A JavaScript Error that is no InspectorError.
JsError(name, message) == [name |-> name, message |-> message]

\* String(error) of a JavaScript Error.
ErrorToString(error) == error.name \o ": " \o error.message

isInspectorError(value) == {"kind", "message"} \subseteq DOMAIN value

\* neverthrow results.
Ok(v) == [ok |-> TRUE, value |-> v]

Err(e) == [ok |-> FALSE, error |-> e]

\* The states of a Promise; settling a settled promise changes nothing.
Pending == [state |-> "pending"]

Fulfilled(v) == [state |-> "fulfilled", value |-> v]

Rejected(reason) == [state |-> "rejected", reason |-> reason]

\* settle, were a later settlement to replace an earlier one.
settleOverwrites(promise, outcome) == outcome

settle(promise, outcome) ==
    IF promise.state = "pending" THEN outcome ELSE promise

\* The error mapper execCommand gives ResultAsync.fromPromise.
mapRejection(reason) ==
    IF isInspectorError(reason)
    THEN reason
    ELSE inspectorError("SPAWN_FAILED", "Unknown error during command execution",
                        Some(ErrorToString(reason)))

\* ResultAsync.fromPromise(promise, mapRejection), once the promise settled.
fromPromise(promise) ==
    IF promise.state = "fulfilled"
    THEN Ok(promise.value)
    ELSE Err(mapRejection(promise.reason))

\* `Command exited with code ${code}`: code is a number or null.
CodeText(code) == IF code = None THEN "null" ELSE NumText(10 * code[1])

\* code !== 0
CodeIsNonZero(code) == code # Some(0)

\* execCommand's default timeout.
ExecDefaultTimeoutMs == 30000

\* options?.timeoutMs ?? 30000
execTimeout(timeoutMs) == IF timeoutMs = None THEN ExecDefaultTimeoutMs ELSE timeoutMs[1]

\* The "data" handlers: stdout += data.toString().
\* onData with = for +=.
onDataOverwrites(buffer, data) == data

onData(buffer, data) == buffer \o data

\* The "error" handler's rejection.
onError(command, error) ==
    Rejected(inspectorError("SPAWN_FAILED",
                            "Failed to spawn command: " \o command,
                            Some(error.message)))

\* The "close" handler's settlement: timedOut first, then the exit code.
\* onClose with stdout || stderr for stderr || stdout.
onCloseStdoutFirst(timedOut, code, stdout, stderr, timeout) ==
    IF timedOut
    THEN Rejected(inspectorError("TIMEOUT",
             "Command timed out after " \o ToString(timeout) \o "ms",
             Some(Join(stderr))))
    ELSE IF CodeIsNonZero(code)
    THEN Rejected(inspectorError("EXECUTION_FAILED",
             "Command exited with code " \o CodeText(code),
             Some(Join(IF stdout # <<>> THEN stdout ELSE stderr))))
    ELSE Fulfilled(stdout)

\* onClose with a Timeout that carries no stderr.
onCloseTimeoutWithoutDetails(timedOut, code, stdout, stderr, timeout) ==
    IF timedOut
    THEN Rejected(inspectorError("TIMEOUT",
             "Command timed out after " \o ToString(timeout) \o "ms",
             Some("")))
    ELSE IF CodeIsNonZero(code)
    THEN Rejected(inspectorError("EXECUTION_FAILED",
             "Command exited with code " \o CodeText(code),
             Some(Join(IF stderr # <<>> THEN stderr ELSE stdout))))
    ELSE Fulfilled(stdout)

onClose(timedOut, code, stdout, stderr, timeout) ==
    IF timedOut
    THEN Rejected(inspectorError("TIMEOUT",
             "Command timed out after " \o ToString(timeout) \o "ms",
             Some(Join(stderr))))
    ELSE IF CodeIsNonZero(code)
    THEN Rejected(inspectorError("EXECUTION_FAILED",
             "Command exited with code " \o CodeText(code),
             Some(Join(IF stderr # <<>> THEN stderr ELSE stdout))))
    ELSE Fulfilled(stdout)

\* parseJson: JSON.parse in a try/catch.
parseJson(jsonString) ==
    LET r == JsonParse(jsonString)
    IN  IF r.ok
        THEN Ok(r.v)
        ELSE Err(inspectorError("PARSE_FAILED", "Failed to parse JSON response",
                                Some(SyntaxErrorMessage(jsonString, r.next))))

\* formatError, were the details line added for any details that are given.
formatErrorAnyDetails(error) ==
    LET message == "Error [" \o error.kind \o "]: " \o error.message
    IN  IF error.details # None
        THEN message \o "\nDetails: " \o error.details[1]
        ELSE message

\* formatError: the details line only for details that are truthy.
formatError(error) ==
    LET message == "Error [" \o error.kind \o "]: " \o error.message
    IN  IF error.details # None /\ error.details[1] # ""
        THEN message \o "\nDetails: " \o error.details[1]
        ELSE message

\* ------------------------------------------- services/inspector-cli.ts

\* require.resolve("@modelcontextprotocol/inspector/cli/build/cli.js")
inspectorPath == "/node_modules/@modelcontextprotocol/inspector/cli/build/cli.js"

InspectorMethods ==
    {"tools/list", "tools/call", "resources/list", "resources/read",
     "prompts/list", "prompts/get"}

\* A TargetServer: target, transport? and env? (its entries in order).
TargetServer(target, transport, env) ==
    [target |-> target, transport |-> transport, env |-> env]

\* obj[key] of a JavaScript object, undefined when it has no such key.
Get(obj, key) ==
    IF \E i \in 1..Len(obj.keys) : obj.keys[i] = key
    THEN obj.items[CHOOSE i \in 1..Len(obj.keys) : obj.keys[i] = key]
    ELSE Undefined

\* `${value}` of a JavaScript value.
TemplateText(v) ==
    IF v.t = "str" THEN v.s
    ELSE IF v.t = "num" THEN NumText(v.n)
    ELSE IF v.t = "undefined" THEN "undefined"
    ELSE IF v.t = "arr" THEN "" ELSE "[object Object]"

\* ToolArgText, were a string JSON.stringify-ed like any other value.
ToolArgTextQuotesStrings(v) ==
    IF v.t = "undefined" THEN "undefined" ELSE Stringify(v, "", 0)

\* JSON.stringify(value), which is undefined for undefined.
ToolArgText(v) ==
    IF v.t = "str" THEN v.s
    ELSE IF v.t = "undefined" THEN "undefined"
    ELSE Stringify(v, "", 0)

\* for (const [key, value] of Object.entries(obj)) args.push(flag, `${key}=...`)
RECURSIVE EntryFlags(_, _, _, _)
EntryFlags(flag, obj, i, asJson) ==
    IF i > Len(obj.keys) THEN <<>>
    ELSE <<flag, obj.keys[i] \o "=" \o
               (IF asJson THEN ToolArgText(obj.items[i])
                          ELSE TemplateText(obj.items[i]))>>
         \o EntryFlags(flag, obj, i + 1, asJson)

\* The method specific arguments of buildCliArgs.
MethodFlags(method, methodArgs) ==
    IF methodArgs = None THEN <<>>
    ELSE LET a == methodArgs[1]
             nested == Get(a, "arguments")
         IN  IF method = "tools/call"
             THEN <<"--tool-name", Get(a, "name").s>>
                  \o (IF nested.t = "obj"
                      THEN EntryFlags("--tool-arg", nested, 1, TRUE) ELSE <<>>)
             ELSE IF method = "resources/read"
             THEN <<"--uri", Get(a, "uri").s>>
             ELSE IF method = "prompts/get"
             THEN <<"--prompt-name", Get(a, "name").s>>
                  \o (IF nested.t = "obj"
                      THEN EntryFlags("--prompt-args", nested, 1, FALSE) ELSE <<>>)
             ELSE <<>>

\* buildCliArgs with the target after --method.
buildCliArgsMethodFirst(method, target, methodArgs) ==
    <<inspectorPath, "--cli", "--method", method, target.target>>
    \o (IF target.transport # None /\ target.transport[1] # ""
        THEN <<"--transport", target.transport[1]>> ELSE <<>>)
    \o (IF target.env # None THEN EntryFlags("-e", target.env[1], 1, FALSE) ELSE <<>>)
    \o MethodFlags(method, methodArgs)

\* buildCliArgs: the entry script, --cli, the target first, then the flags.
buildCliArgs(method, target, methodArgs) ==
    <<inspectorPath, "--cli", target.target, "--method", method>>
    \o (IF target.transport # None /\ target.transport[1] # ""
        THEN <<"--transport", target.transport[1]>> ELSE <<>>)
    \o (IF target.env # None THEN EntryFlags("-e", target.env[1], 1, FALSE) ELSE <<>>)
    \o MethodFlags(method, methodArgs)

\* buildCliArgs of the package-runner variant of the service: the package,
\* --cli, the flags, the method arguments as one --json text when there are
\* any, and the target last.
buildCliArgsNpx(method, target, methodArgs) ==
    <<"@modelcontextprotocol/inspector", "--cli", "--method", method>>
    \o (IF target.transport # None /\ target.transport[1] # ""
        THEN <<"--transport", target.transport[1]>> ELSE <<>>)
    \o (IF target.env # None THEN EntryFlags("-e", target.env[1], 1, FALSE) ELSE <<>>)
    \o (IF methodArgs # None /\ methodArgs[1].keys # <<>>
        THEN <<"--json", Stringify(methodArgs[1], "", 0)>> ELSE <<>>)
    \o <<target.target>>

\* runInspectorCli's default timeout.
CliDefaultTimeoutMs == 60000

\* timeoutMs ?? 60000
cliTimeout(timeoutMs) == IF timeoutMs = None THEN CliDefaultTimeoutMs ELSE timeoutMs[1]

\* decodeOutput without the "{}" for nothing.
decodeOutputWithoutDefault(output) == parseJson(Trim(output))

\* The andThen callback of runInspectorCli: trim, "{}" for nothing, parse.
decodeOutput(output) ==
    LET trimmedOutput == Trim(output)
        jsonStr == IF trimmedOutput # <<>> THEN trimmedOutput ELSE <<"{", "}">>
    IN  parseJson(jsonStr)

\* andThenDecode, were a failure of execCommand wrapped anew on its way.
andThenDecodeRewraps(result) ==
    IF result.ok
    THEN decodeOutput(result.value)
    ELSE Err(inspectorError("INVALID_RESPONSE", result.error.message,
                            result.error.details))

\* result.andThen(decodeOutput): an error passes through as it is.
andThenDecode(result) ==
    IF result.ok THEN decodeOutput(result.value) ELSE result

\* --------------------------------------------------- tools/inspector.ts

Tools ==
    {"mcpdev_inspector_list_tools", "mcpdev_inspector_call_tool",
     "mcpdev_inspector_list_resources", "mcpdev_inspector_read_resource",
     "mcpdev_inspector_list_prompts", "mcpdev_inspector_get_prompt"}

\* The schema's bounds and default of timeout_ms.
MinTimeoutMs == 1000

MaxTimeoutMs == 300000

DefaultTimeoutMs == 60000

\* The input of a tool call as the caller sends it: JavaScript values,
\* Undefined for a key that is absent.
RawParams(target, transport, timeout_ms, env, extra) ==
    [target |-> target, transport |-> transport, timeout_ms |-> timeout_ms,
     env |-> env, tool_name |-> extra.tool_name, tool_args |-> extra.tool_args,
     uri |-> extra.uri, prompt_name |-> extra.prompt_name,
     prompt_args |-> extra.prompt_args]

\* z.string().min(1)
NonEmptyString(v) == v.t = "str" /\ v.s # ""

\* z.enum(["stdio", "sse", "http"]).optional()
TransportSchema(v) ==
    v.t = "undefined" \/ (v.t = "str" /\ v.s \in {"stdio", "sse", "http"})

\* z.number().int().min(1000).max(300000).default(60000)
\* TimeoutSchema without .int().
TimeoutSchemaWithoutInt(v) ==
    \/ v.t = "undefined"
    \/ /\ v.t = "num"
       /\ v.n >= 10 * MinTimeoutMs
       /\ v.n <= 10 * MaxTimeoutMs

TimeoutSchema(v) ==
    \/ v.t = "undefined"
    \/ /\ v.t = "num"
       /\ v.n % 10 = 0
       /\ v.n >= 10 * MinTimeoutMs
       /\ v.n <= 10 * MaxTimeoutMs

\* z.object({target, transport, timeout_ms})
TargetServerSchema(raw) ==
    /\ NonEmptyString(raw.target)
    /\ TransportSchema(raw.transport)
    /\ TimeoutSchema(raw.timeout_ms)

\* z.record(z.unknown()).default({})
RecordOfUnknown(v) == v.t \in {"undefined", "obj"}

\* z.record(z.string()).default({})
RecordOfString(v) ==
    \/ v.t = "undefined"
    \/ v.t = "obj" /\ \A i \in 1..Len(v.items) : v.items[i].t = "str"

\* The inputSchema each tool is registered with.
InputSchema(tool, raw) ==
    /\ TargetServerSchema(raw)
    /\ tool = "mcpdev_inspector_call_tool" =>
           NonEmptyString(raw.tool_name) /\ RecordOfUnknown(raw.tool_args)
    /\ tool = "mcpdev_inspector_read_resource" => NonEmptyString(raw.uri)
    /\ tool = "mcpdev_inspector_get_prompt" =>
           NonEmptyString(raw.prompt_name) /\ RecordOfString(raw.prompt_args)

\* The params the handler receives: the keys of the schema, defaults filled
\* in, every other key (env among them) stripped.
ParseParams(tool, raw) ==
    [target |-> raw.target.s,
     transport |-> IF raw.transport.t = "undefined" THEN None ELSE Some(raw.transport.s),
     timeout_ms |-> IF raw.timeout_ms.t = "undefined"
                    THEN DefaultTimeoutMs ELSE raw.timeout_ms.n \div 10,
     tool_name |-> raw.tool_name.s,
     tool_args |-> IF raw.tool_args.t = "undefined" THEN EmptyObj ELSE raw.tool_args,
     uri |-> raw.uri.s,
     prompt_name |-> raw.prompt_name.s,
     prompt_args |-> IF raw.prompt_args.t = "undefined" THEN EmptyObj ELSE raw.prompt_args]

\* HandlerTarget, were the caller's env passed on.
HandlerTargetWithEnv(raw, params) ==
    TargetServer(params.target, params.transport,
                 IF raw.env.t = "obj" THEN Some(raw.env) ELSE None)

\* The TargetServer every handler builds: { target, transport } of params;
\* of the caller's raw input it sees nothing else.
HandlerTarget(raw, params) == TargetServer(params.target, params.transport, None)

\* The method and the methodArgs of the service function each handler calls
\* (listTools, callTool, listResources, readResource, listPrompts, getPrompt).
ServiceMethod(tool) ==
    CASE tool = "mcpdev_inspector_list_tools" -> "tools/list"
      [] tool = "mcpdev_inspector_call_tool" -> "tools/call"
      [] tool = "mcpdev_inspector_list_resources" -> "resources/list"
      [] tool = "mcpdev_inspector_read_resource" -> "resources/read"
      [] tool = "mcpdev_inspector_list_prompts" -> "prompts/list"
      [] tool = "mcpdev_inspector_get_prompt" -> "prompts/get"

ServiceMethodArgs(tool, params) ==
    CASE tool = "mcpdev_inspector_call_tool" ->
             Some(Obj(<<"name", "arguments">>, <<Str(params.tool_name), params.tool_args>>))
      [] tool = "mcpdev_inspector_read_resource" ->
             Some(Obj(<<"uri">>, <<Str(params.uri)>>))
      [] tool = "mcpdev_inspector_get_prompt" ->
             Some(Obj(<<"name", "arguments">>, <<Str(params.prompt_name), params.prompt_args>>))
      [] OTHER -> None

\* ToolResponse without isError: true.
ToolResponseNeverFlags(result) ==
    IF ~result.ok
    THEN [content |-> <<[type |-> "text", text |-> formatError(result.error)]>>]
    ELSE [content |-> <<[type |-> "text", text |-> Stringify(result.value, "  ", 0)]>>]

\* The response a handler returns for the result it awaited.
ToolResponse(result) ==
    IF ~result.ok
    THEN [content |-> <<[type |-> "text", text |-> formatError(result.error)]>>,
          isError |-> TRUE]
    ELSE [content |-> <<[type |-> "text", text |-> Stringify(result.value, "  ", 0)]>>]

\* ---------------------------------------------------------------- inputs

TargetInputs == {Str("node server.js"), Str("")}

TransportInputs == {Undefined, Str("stdio"), Str("sse"), Str("http"), Str("ws")}

TimeoutInputs ==
    {Undefined, Num(MinTimeoutMs - 1), Num(MinTimeoutMs), Num(MaxTimeoutMs),
     Num(MaxTimeoutMs + 1), NumTenths(15005), Str("60000")}

EnvInputs ==
    {Undefined, Obj(<<"API_KEY", "MODE">>, <<Str("secret"), Str("dev")>>)}

ToolArgsInputs ==
    {Undefined, Obj(<<"city", "days">>, <<Str("Tokyo"), Num(3)>>)}

PromptArgsInputs == {Undefined, Obj(<<"lang">>, <<Str("en")>>)}

\* The keys a tool has beside those of TargetServerSchema.
ExtraInputs(tool) ==
    CASE tool = "mcpdev_inspector_call_tool" ->
             [tool_name : {Str("get_weather"), Str("")}, tool_args : ToolArgsInputs,
              uri : {Undefined}, prompt_name : {Undefined}, prompt_args : {Undefined}]
      [] tool = "mcpdev_inspector_read_resource" ->
             [tool_name : {Undefined}, tool_args : {Undefined},
              uri : {Str("file:///notes.txt"), Undefined},
              prompt_name : {Undefined}, prompt_args : {Undefined}]
      [] tool = "mcpdev_inspector_get_prompt" ->
             [tool_name : {Undefined}, tool_args : {Undefined}, uri : {Undefined},
              prompt_name : {Str("greet"), Str("")}, prompt_args : PromptArgsInputs]
      [] OTHER ->
             [tool_name : {Undefined}, tool_args : {Undefined}, uri : {Undefined},
              prompt_name : {Undefined}, prompt_args : {Undefined}]

RawInputs(tool) ==
    {RawParams(t, tr, ms, env, x) :
        t \in TargetInputs, tr \in TransportInputs, ms \in TimeoutInputs,
        env \in EnvInputs, x \in ExtraInputs(tool)}

\* The calls a caller may make: a tool and its raw input.
Inputs ==
    UNION {{[tool |-> tool, raw |-> raw] : raw \in RawInputs(tool)} : tool \in Tools}

\* What a subprocess may print, chunk by chunk.
StdoutChunks ==
    { <<"\n">>,
      <<"{", "\"tools\"", ":", "[", "1">>,
      <<",", "2", "]", "}", "\n">>,
      <<"not-json">> }

StderrChunks == { <<"ECONNREFUSED", "\n">> }

\* Exit codes: null (killed by a signal), 0, 1.
ExitCodes == {None, Some(0), Some(1)}

\* What spawn may throw, and the error of the "error" event.
SpawnExceptions == {JsError("TypeError", "The argument 'args' is invalid")}

SpawnErrors == {JsError("Error", "spawn node ENOENT")}

\* The exit code of the "close" event that follows a failed spawn (-ENOENT).
SpawnFailedCode == -2

\* ------------------------------------------------------------------ state

VARIABLES
    pc,           \* idle | rejected | awaiting | returned
    request,      \* the tool and the raw input of the call, once made
    spawned,      \* the spawn() calls made: command, args, shell
    timeoutMs,    \* execCommand's timeout
    proc,         \* none | failing | errored | running | exited | closed
    exitCode,     \* the code of the "close" event
    stdout,       \* execCommand's stdout buffer
    stderr,       \* execCommand's stderr buffer
    timedOut,     \* execCommand's timedOut flag
    timer,        \* none | armed | fired | cleared
    kills,        \* SIGTERMs delivered to the running subprocess
    promise,      \* the promise execCommand wraps
    response,     \* what the handler returned, once it did
    outChunks,    \* history: the stdout chunks received
    errChunks,    \* history: the stderr chunks received
    stderrAtKill  \* history: stderr when the timer fired

vars ==
    <<pc, request, spawned, timeoutMs, proc, exitCode, stdout, stderr, timedOut,
      timer, kills, promise, response, outChunks, errChunks, stderrAtKill>>

\* execCommand(...) as a ResultAsync, once its promise settled.
execResult(c) == fromPromise(promise[c])

\* runInspectorCli(...): execCommand(...).andThen(decode).
cliResult(c) == andThenDecode(execResult(c))

Init ==
    /\ pc = [c \in Calls |-> "idle"]
    /\ request = [c \in Calls |-> None]
    /\ spawned = [c \in Calls |-> <<>>]
    /\ timeoutMs = [c \in Calls |-> 0]
    /\ proc = [c \in Calls |-> "none"]
    /\ exitCode = [c \in Calls |-> None]
    /\ stdout = [c \in Calls |-> <<>>]
    /\ stderr = [c \in Calls |-> <<>>]
    /\ timedOut = [c \in Calls |-> FALSE]
    /\ timer = [c \in Calls |-> "none"]
    /\ kills = [c \in Calls |-> 0]
    /\ promise = [c \in Calls |-> Pending]
    /\ response = [c \in Calls |-> None]
    /\ outChunks = [c \in Calls |-> <<>>]
    /\ errChunks = [c \in Calls |-> <<>>]
    /\ stderrAtKill = [c \in Calls |-> None]

\* The promise of call c takes outcome; the handler, which awaits it, returns
\* its response when the promise settles.
Settle(c, outcome) ==
    LET p == settle(promise[c], outcome)
    IN  /\ promise' = [promise EXCEPT ![c] = p]
        /\ IF promise[c].state = "pending"
           THEN /\ response' = [response EXCEPT
                       ![c] = Some(ToolResponse(andThenDecode(fromPromise(p))))]
                /\ pc' = [pc EXCEPT ![c] = "returned"]
           ELSE UNCHANGED <<response, pc>>

\* The timeout a handler's call reaches execCommand with: params.timeout_ms
\* through runInspectorCli's and execCommand's defaults.
CallTimeout(tool, raw) ==
    execTimeout(Some(cliTimeout(Some(ParseParams(tool, raw).timeout_ms))))

\* runInspectorCli: execCommand("node", args, {timeoutMs, shell: false}).
SpawnCall(tool, raw) ==
    LET params == ParseParams(tool, raw)
    IN  [command |-> "node",
         args |-> buildCliArgs(ServiceMethod(tool), HandlerTarget(raw, params),
                               ServiceMethodArgs(tool, params)),
         shell |-> FALSE]

\* A call whose input the schema rejects: the handler does not run.
RejectInput(c, tool, raw) ==
    /\ pc[c] = "idle"
    /\ ~InputSchema(tool, raw)
    /\ pc' = [pc EXCEPT ![c] = "rejected"]
    /\ request' = [request EXCEPT ![c] = Some([tool |-> tool, raw |-> raw])]
    /\ UNCHANGED <<spawned, timeoutMs, proc, exitCode, stdout, stderr, timedOut,
                   timer, kills, promise, response, outChunks, errChunks,
                   stderrAtKill>>

\* The handler runs and spawn throws: the executor's exception rejects the
\* promise before the timer is set.
HandlerSpawnThrows(c, tool, raw, error) ==
    /\ pc[c] = "idle"
    /\ InputSchema(tool, raw)
    /\ request' = [request EXCEPT ![c] = Some([tool |-> tool, raw |-> raw])]
    /\ spawned' = [spawned EXCEPT ![c] = Append(@, SpawnCall(tool, raw))]
    /\ timeoutMs' = [timeoutMs EXCEPT ![c] = CallTimeout(tool, raw)]
    /\ Settle(c, Rejected(error))
    /\ UNCHANGED <<proc, exitCode, stdout, stderr, timedOut, timer, kills,
                   outChunks, errChunks, stderrAtKill>>

\* The handler runs and spawn returns a child process, which starts
\* (started) or fails to start; the timer is set and the handler awaits.
HandlerSpawns(c, tool, raw, started) ==
    /\ pc[c] = "idle"
    /\ InputSchema(tool, raw)
    /\ request' = [request EXCEPT ![c] = Some([tool |-> tool, raw |-> raw])]
    /\ spawned' = [spawned EXCEPT ![c] = Append(@, SpawnCall(tool, raw))]
    /\ timeoutMs' = [timeoutMs EXCEPT ![c] = CallTimeout(tool, raw)]
    /\ proc' = [proc EXCEPT ![c] = IF started THEN "running" ELSE "failing"]
    /\ timer' = [timer EXCEPT ![c] = "armed"]
    /\ pc' = [pc EXCEPT ![c] = "awaiting"]
    /\ UNCHANGED <<exitCode, stdout, stderr, timedOut, kills, promise, response,
                   outChunks, errChunks, stderrAtKill>>

\* clearTimeout that clears nothing.
clearTimeoutLeavesTimer(t) == t

\* clearTimeout(timer)
clearTimeout(t) == IF t = "armed" THEN "cleared" ELSE t

\* SpawnError, were the command spawned again after a failed start.
SpawnErrorRetries(c, error) ==
    /\ proc[c] = "failing"
    /\ spawned' = [spawned EXCEPT ![c] = Append(@, @[Len(@)])]
    /\ UNCHANGED <<pc, request, timeoutMs, proc, exitCode, stdout, stderr,
                   timedOut, timer, kills, promise, response, outChunks,
                   errChunks, stderrAtKill>>

\* proc.on("error"): the process could not be started.  The event comes on
\* the next tick after spawn, before any timer.
SpawnError(c, error) ==
    /\ proc[c] = "failing"
    /\ timer' = [timer EXCEPT ![c] = clearTimeout(@)]
    /\ Settle(c, onError(spawned[c][Len(spawned[c])].command, error))
    /\ proc' = [proc EXCEPT ![c] = "errored"]
    /\ exitCode' = [exitCode EXCEPT ![c] = Some(SpawnFailedCode)]
    /\ UNCHANGED <<request, spawned, timeoutMs, stdout, stderr, timedOut, kills,
                   outChunks, errChunks, stderrAtKill>>

\* StdoutData, were the stdout buffer one variable of the module that every
\* call appends to.
StdoutDataShared(c, data) ==
    /\ proc[c] \in {"running", "exited"}
    /\ Len(outChunks[c]) < MaxOut
    /\ stdout' = [d \in Calls |-> onData(stdout[d], data)]
    /\ outChunks' = [outChunks EXCEPT ![c] = Append(@, data)]
    /\ UNCHANGED <<pc, request, spawned, timeoutMs, proc, exitCode, stderr,
                   timedOut, timer, kills, promise, response, errChunks,
                   stderrAtKill>>

\* proc.stdout.on("data")
StdoutData(c, data) ==
    /\ proc[c] \in {"running", "exited"}
    /\ Len(outChunks[c]) < MaxOut
    /\ stdout' = [stdout EXCEPT ![c] = onData(@, data)]
    /\ outChunks' = [outChunks EXCEPT ![c] = Append(@, data)]
    /\ UNCHANGED <<pc, request, spawned, timeoutMs, proc, exitCode, stderr,
                   timedOut, timer, kills, promise, response, errChunks,
                   stderrAtKill>>

\* proc.stderr.on("data")
StderrData(c, data) ==
    /\ proc[c] \in {"running", "exited"}
    /\ Len(errChunks[c]) < MaxErr
    /\ stderr' = [stderr EXCEPT ![c] = onData(@, data)]
    /\ errChunks' = [errChunks EXCEPT ![c] = Append(@, data)]
    /\ UNCHANGED <<pc, request, spawned, timeoutMs, proc, exitCode, stdout,
                   timedOut, timer, kills, promise, response, outChunks,
                   stderrAtKill>>

\* TimerFires, were the promise rejected as soon as the signal is sent.
TimerFiresAndRejects(c) ==
    /\ timer[c] = "armed"
    /\ proc[c] \in {"running", "exited"}
    /\ timer' = [timer EXCEPT ![c] = "fired"]
    /\ timedOut' = [timedOut EXCEPT ![c] = TRUE]
    /\ kills' = [kills EXCEPT ![c] = IF proc[c] = "running" THEN @ + 1 ELSE @]
    /\ stderrAtKill' = [stderrAtKill EXCEPT ![c] = Some(Join(stderr[c]))]
    /\ Settle(c, Rejected(inspectorError("TIMEOUT",
                   "Command timed out after " \o ToString(timeoutMs[c]) \o "ms",
                   Some(Join(stderr[c])))))
    /\ UNCHANGED <<request, spawned, timeoutMs, proc, exitCode, stdout, stderr,
                   outChunks, errChunks>>

\* The timer's callback: timedOut = true; proc.kill("SIGTERM").  The signal
\* reaches the subprocess only while it runs.
TimerFires(c) ==
    /\ timer[c] = "armed"
    /\ proc[c] \in {"running", "exited"}
    /\ timer' = [timer EXCEPT ![c] = "fired"]
    /\ timedOut' = [timedOut EXCEPT ![c] = TRUE]
    /\ kills' = [kills EXCEPT ![c] = IF proc[c] = "running" THEN @ + 1 ELSE @]
    /\ stderrAtKill' = [stderrAtKill EXCEPT ![c] = Some(Join(stderr[c]))]
    /\ UNCHANGED <<pc, request, spawned, timeoutMs, proc, exitCode, stdout,
                   stderr, promise, response, outChunks, errChunks>>

\* The subprocess ends: by itself, by the SIGTERM, or by another signal.
\* Its output streams may still hold data.
ProcExit(c, code) ==
    /\ proc[c] = "running"
    /\ proc' = [proc EXCEPT ![c] = "exited"]
    /\ exitCode' = [exitCode EXCEPT ![c] = code]
    /\ UNCHANGED <<pc, request, spawned, timeoutMs, stdout, stderr, timedOut,
                   timer, kills, promise, response, outChunks, errChunks,
                   stderrAtKill>>

\* proc.on("close"): the process ended and its streams closed.
Close(c) ==
    /\ proc[c] \in {"exited", "errored"}
    /\ timer' = [timer EXCEPT ![c] = clearTimeout(@)]
    /\ Settle(c, onClose(timedOut[c], exitCode[c], stdout[c], stderr[c], timeoutMs[c]))
    /\ proc' = [proc EXCEPT ![c] = "closed"]
    /\ UNCHANGED <<request, spawned, timeoutMs, exitCode, stdout, stderr,
                   timedOut, kills, outChunks, errChunks, stderrAtKill>>

\* The calls of the single-call specification.
Solo == {1}

\* The inputs call c may be made with: any, while it has not been made.
InputsOf(c) == IF pc[c] = "idle" THEN Inputs ELSE {}

Next ==
    \E c \in Solo :
        \/ \E in \in InputsOf(c) : RejectInput(c, in.tool, in.raw)
        \/ \E in \in InputsOf(c) : \E error \in SpawnExceptions :
               HandlerSpawnThrows(c, in.tool, in.raw, error)
        \/ \E in \in InputsOf(c) : \E started \in BOOLEAN :
               HandlerSpawns(c, in.tool, in.raw, started)
        \/ \E error \in SpawnErrors : SpawnError(c, error)
        \/ \E data \in StdoutChunks : StdoutData(c, data)
        \/ \E data \in StderrChunks : StderrData(c, data)
        \/ TimerFires(c)
        \/ \E code \in ExitCodes : ProcExit(c, code)
        \/ Close(c)

Spec == Init /\ [][Next]_vars

\* Every event the runtime owes a call is delivered: a timer that is set
\* fires unless it is cleared, and the "error" and "close" events of a
\* process that failed to start or ended are emitted.  When, and whether, a
\* running subprocess ends is up to the subprocess.
Fairness ==
    \A c \in Solo :
        /\ WF_vars(TimerFires(c))
        /\ WF_vars(\E error \in SpawnErrors : SpawnError(c, error))
        /\ WF_vars(Close(c))

\* The calls of FairSpec: each tool once with a valid input, and one call the
\* schema rejects.
FairInputs ==
    {in \in Inputs :
        /\ in.raw.transport = Undefined
        /\ in.raw.env = Undefined
        /\ in.raw.tool_args = Undefined
        /\ in.raw.prompt_args = Undefined
        /\ in.raw.timeout_ms \in {Num(MinTimeoutMs), Num(MinTimeoutMs - 1)}
        /\ in.raw.timeout_ms = Num(MinTimeoutMs - 1) =>
               in.tool = "mcpdev_inspector_list_tools"
        /\ InputSchema(in.tool, [in.raw EXCEPT !.timeout_ms = Undefined])}

FairInputsOf(c) == IF pc[c] = "idle" THEN FairInputs ELSE {}

FairNext ==
    \E c \in Solo :
        \/ \E in \in FairInputsOf(c) : RejectInput(c, in.tool, in.raw)
        \/ \E in \in FairInputsOf(c) : \E error \in SpawnExceptions :
               HandlerSpawnThrows(c, in.tool, in.raw, error)
        \/ \E in \in FairInputsOf(c) : \E started \in BOOLEAN :
               HandlerSpawns(c, in.tool, in.raw, started)
        \/ \E error \in SpawnErrors : SpawnError(c, error)
        \/ \E data \in StdoutChunks : StdoutData(c, data)
        \/ \E data \in StderrChunks : StderrData(c, data)
        \/ TimerFires(c)
        \/ \E code \in ExitCodes : ProcExit(c, code)
        \/ Close(c)

FairSpec == Init /\ [][FairNext]_vars /\ Fairness

\* ------------------------------------------------- calls in flight together

\* The calls that run together: list_tools of one target, with the least and
\* the greatest timeout.
ConcurrentInputs ==
    {in \in Inputs :
        /\ in.tool = "mcpdev_inspector_list_tools"
        /\ in.raw.target = Str("node server.js")
        /\ in.raw.transport = Undefined
        /\ in.raw.env = Undefined
        /\ in.raw.timeout_ms \in {Num(MinTimeoutMs), Num(MaxTimeoutMs)}}

ConcurrentInputsOf(c) == IF pc[c] = "idle" THEN ConcurrentInputs ELSE {}

\* What their subprocesses print: {} in one chunk, which printed twice is no
\* JSON text.
ConcurrentStdout == { <<"{", "}">> }

\* Any call may be made while others are in flight, and the timer and the
\* events of the calls in flight come in any order.
ConcurrentNext ==
    \E c \in Calls :
        \/ \E in \in ConcurrentInputsOf(c) : \E started \in BOOLEAN :
               HandlerSpawns(c, in.tool, in.raw, started)
        \/ \E error \in SpawnErrors : SpawnError(c, error)
        \/ \E data \in ConcurrentStdout : StdoutData(c, data)
        \/ \E data \in StderrChunks : StderrData(c, data)
        \/ TimerFires(c)
        \/ \E code \in ExitCodes : ProcExit(c, code)
        \/ Close(c)

ConcurrentSpec == Init /\ [][ConcurrentNext]_vars

\* ------------------------------------------- the service, called directly

\* The TargetServers a caller of the service may hold.
ServiceTargets ==
    {TargetServer(t, tr, env) :
        t \in {"node server.js", "http://localhost:3000/sse"},
        tr \in {None, Some("sse")},
        env \in {None, Some(Obj(<<"API_KEY", "MODE">>, <<Str("secret"), Str("dev")>>))}}

\* The toolArgs a caller may give callTool: none, strings, a number, an
\* object and an array, or a mapping without entries.
ServiceToolArgs ==
    {None,
     Some(EmptyObj),
     Some(Obj(<<"city", "days", "opts">>,
              <<Str("Tokyo"), Num(3), Obj(<<"units">>, <<Str("metric")>>)>>)),
     Some(Obj(<<"tags", "note">>, <<Arr(<<Str("a"), Num(1)>>), Str("")>>))}

\* The calls of the service functions: the method of the function, its
\* TargetServer, its name or uri, and its optional arguments.
ServiceInputs ==
    {[method |-> m, target |-> t, name |-> "", arguments |-> None] :
        m \in {"tools/list", "resources/list", "prompts/list"}, t \in ServiceTargets}
    \cup {[method |-> "tools/call", target |-> t, name |-> "get_weather", arguments |-> a] :
             t \in ServiceTargets, a \in ServiceToolArgs}
    \cup {[method |-> "resources/read", target |-> t, name |-> "file:///notes.txt",
           arguments |-> None] : t \in ServiceTargets}
    \cup {[method |-> "prompts/get", target |-> t, name |-> "greet", arguments |-> a] :
             t \in ServiceTargets, a \in {None, Some(Obj(<<"lang">>, <<Str("en")>>))}}

\* The methodArgs listTools .. getPrompt give runInspectorCli:
\* { name, arguments: args ?? {} }, { uri }, or undefined.
methodArgsOf(in) ==
    LET arguments == IF in.arguments = None THEN EmptyObj ELSE in.arguments[1]
    IN  IF in.method \in {"tools/call", "prompts/get"}
        THEN Some(Obj(<<"name", "arguments">>, <<Str(in.name), arguments>>))
        ELSE IF in.method = "resources/read"
        THEN Some(Obj(<<"uri">>, <<Str(in.name)>>))
        ELSE None

\* A service function of the direct-interpreter variant is called:
\* execCommand("node", buildCliArgs(...), {timeoutMs: 60000, shell: false}).
ServiceCall(c, in) ==
    /\ pc[c] = "idle"
    /\ request' = [request EXCEPT ![c] = Some(in)]
    /\ spawned' = [spawned EXCEPT ![c] =
           Append(@, [command |-> "node",
                      args |-> buildCliArgs(in.method, in.target, methodArgsOf(in)),
                      shell |-> FALSE])]
    /\ timeoutMs' = [timeoutMs EXCEPT ![c] = execTimeout(Some(cliTimeout(None)))]
    /\ proc' = [proc EXCEPT ![c] = "running"]
    /\ timer' = [timer EXCEPT ![c] = "armed"]
    /\ pc' = [pc EXCEPT ![c] = "awaiting"]
    /\ UNCHANGED <<exitCode, stdout, stderr, timedOut, kills, promise, response,
                   outChunks, errChunks, stderrAtKill>>

\* A service function of the package-runner variant is called:
\* execCommand("npx", buildCliArgs(...), {timeoutMs: 60000}), in a shell.
ServiceCallNpx(c, in) ==
    /\ pc[c] = "idle"
    /\ request' = [request EXCEPT ![c] = Some(in)]
    /\ spawned' = [spawned EXCEPT ![c] =
           Append(@, [command |-> "npx",
                      args |-> buildCliArgsNpx(in.method, in.target, methodArgsOf(in)),
                      shell |-> TRUE])]
    /\ timeoutMs' = [timeoutMs EXCEPT ![c] = execTimeout(Some(cliTimeout(None)))]
    /\ proc' = [proc EXCEPT ![c] = "running"]
    /\ timer' = [timer EXCEPT ![c] = "armed"]
    /\ pc' = [pc EXCEPT ![c] = "awaiting"]
    /\ UNCHANGED <<exitCode, stdout, stderr, timedOut, kills, promise, response,
                   outChunks, errChunks, stderrAtKill>>

ServiceInputsOf(c) == IF pc[c] = "idle" THEN ServiceInputs ELSE {}

\* Callers of the service, each calling one function of either variant.
ServiceNext ==
    \E c \in Calls :
        \/ \E in \in ServiceInputsOf(c) : ServiceCall(c, in)
        \/ \E in \in ServiceInputsOf(c) : ServiceCallNpx(c, in)

ServiceSpec == Init /\ [][ServiceNext]_vars

\* ------------------------------------------- the handler, given a failure

\* InspectorErrors: any kind, with details, with empty details, without.
Failures ==
    {inspectorError(kind, message, details) :
        kind \in InspectorErrorKinds,
        message \in {"Failed to parse JSON response", "Command exited with code 1"},
        details \in {None, Some(""), Some("ECONNREFUSED\n")}}

\* The handler of a tool awaited its service function and got the failure
\* error: it returns the formatted failure, flagged isError.
HandlerGetsFailure(c, error) ==
    /\ pc[c] = "idle"
    /\ promise' = [promise EXCEPT ![c] = Rejected(error)]
    /\ response' = [response EXCEPT ![c] = Some(ToolResponse(Err(error)))]
    /\ pc' = [pc EXCEPT ![c] = "returned"]
    /\ UNCHANGED <<request, spawned, timeoutMs, proc, exitCode, stdout, stderr,
                   timedOut, timer, kills, outChunks, errChunks, stderrAtKill>>

FormatNext == \E c \in Calls : \E error \in Failures : HandlerGetsFailure(c, error)

FormatSpec == Init /\ [][FormatNext]_vars

\* ----------------------------------------------------------------- claims

\* What is said of a call below is read off these.
Made(c) == request[c] # None

Tool(c) == request[c][1].tool

Raw(c) == request[c][1].raw

Args(c) == spawned[c][1].args

Reported(c) == promise[c].state # "pending"

ReportedKind(c, kind) ==
    promise[c].state = "rejected" /\ execResult(c).error.kind = kind

\* The subprocess ran and its "close" event was handled.
RanAndClosed(c) ==
    proc[c] = "closed" /\ (exitCode[c] = None \/ exitCode[c][1] >= 0)

\* The process failed to start and its "error" event was handled.
FailedToStart(c) ==
    proc[c] = "errored" \/ (proc[c] = "closed" /\ exitCode[c] = Some(SpawnFailedCode))

\* spawn threw.
SpawnThrew(c) == spawned[c] # <<>> /\ proc[c] = "none"

Flagged(r) == "isError" \in DOMAIN r /\ r.isError = TRUE

\* s and t are adjacent in args, in this order.
HasPair(args, s, t) == \E i \in 1..(Len(args) - 1) : args[i] = s /\ args[i + 1] = t

\* The text runInspectorCli parses: the trimmed stdout, or "{}" for nothing.
DecodedText(c) ==
    LET t == Trim(Flatten(outChunks[c])) IN IF t = <<>> THEN <<"{", "}">> ELSE t

\* The outcome of the pipeline of call c is a failure: spawn threw, the
\* process failed to start, the timer fired, the exit code is not 0, or
\* stdout is no JSON text.
PipelineFailed(c) ==
    \/ SpawnThrew(c)
    \/ FailedToStart(c)
    \/ timedOut[c]
    \/ CodeIsNonZero(exitCode[c])
    \/ ~JsonParse(DecodedText(c)).ok

\* The pipeline of call c has run to its end.
PipelineEnded(c) == SpawnThrew(c) \/ FailedToStart(c) \/ proc[c] = "closed"

\* C1: for every tool and every outcome of the pipeline the handler returns
\* a response with exactly one content item, of type text; the response is
\* flagged isError, with the formatted failure as its text, exactly when the
\* outcome is a failure, and otherwise its text is the decoded result printed
\* as JSON with an indent of two spaces.
C1_HandlerAlwaysResponds ==
    \A c \in Calls :
        /\ PipelineEnded(c) => response[c] # None /\ pc[c] = "returned"
        /\ response[c] # None =>
               LET r == response[c][1]
               IN  /\ PipelineEnded(c)
                   /\ Len(r.content) = 1
                   /\ r.content[1].type = "text"
                   /\ Flagged(r) <=> PipelineFailed(c)
                   /\ PipelineFailed(c) <=> ~cliResult(c).ok
                   /\ IF PipelineFailed(c)
                      THEN r.content[1].text = formatError(cliResult(c).error)
                      ELSE r.content[1].text =
                               Stringify(JsonParse(DecodedText(c)).v, "  ", 0)
                   /\ (~PipelineFailed(c) /\ Len(outChunks[c]) = 0)
                          => r.content[1].text = "{}"
                   /\ (~PipelineFailed(c) /\ Len(outChunks[c]) = 2
                          /\ outChunks[c][1] # <<"\n">>)
                          => r.content[1].text = "{\n  \"tools\": [\n    1,\n    2\n  ]\n}"
                   /\ SpawnThrew(c) =>
                          r.content[1].text =
                              "Error [SPAWN_FAILED]: Unknown error during command execution"
                              \o "\nDetails: TypeError: The argument 'args' is invalid"

\* A call whose stdout could not be parsed returned a flagged response.
C1_Witness ==
    \E c \in Calls :
        /\ response[c] # None
        /\ Flagged(response[c][1])
        /\ ~cliResult(c).ok
        /\ cliResult(c).error.kind = "PARSE_FAILED"
        /\ Tool(c) = "mcpdev_inspector_get_prompt"

\* C2 as claimed: whenever the process exits with code 0 the outcome is
\* success with the concatenation of the stdout chunks, whatever the timer did.
C2_Original ==
    \A c \in Calls :
        (RanAndClosed(c) /\ exitCode[c] = Some(0))
            => promise[c] = Fulfilled(Flatten(outChunks[c]))

\* C2, amended: whenever the process exits with code 0 and the timer has not
\* fired before its "close" event, the outcome is success and its value is
\* the concatenation of all stdout chunks received, untrimmed; when the timer
\* has fired, the outcome is a Timeout failure although the code is 0.
C2_ExitZeroWithoutTimeoutSucceeds ==
    \A c \in Calls :
        (RanAndClosed(c) /\ exitCode[c] = Some(0)) =>
            IF timedOut[c]
            THEN ReportedKind(c, "TIMEOUT")
            ELSE /\ promise[c] = Fulfilled(Flatten(outChunks[c]))
                 /\ execResult(c) = Ok(Flatten(outChunks[c]))

\* A process that printed two chunks, with whitespace at an end, exited 0.
C2_Witness ==
    \E c \in Calls :
        /\ RanAndClosed(c)
        /\ exitCode[c] = Some(0)
        /\ ~timedOut[c]
        /\ Len(outChunks[c]) = 2
        /\ promise[c].state = "fulfilled"
        /\ Trim(promise[c].value) # promise[c].value

C4_Original ==
    \A c \in Calls :
        (timedOut[c] /\ kills[c] = 1) ~> ReportedKind(c, "TIMEOUT")

C6_NonZeroExitIsExecutionFailed ==
    \A c \in Calls :
        (RanAndClosed(c) /\ exitCode[c] # Some(0) /\ ~timedOut[c]) =>
            LET err == Flatten(errChunks[c])
                out == Flatten(outChunks[c])
            IN  /\ promise[c].state = "rejected"
                /\ execResult(c).error.kind = "EXECUTION_FAILED"
                /\ execResult(c).error.kind \notin {"TIMEOUT", "SPAWN_FAILED"}
                /\ execResult(c).error.details =
                       Some(Join(IF err # <<>> THEN err ELSE out))
                /\ execResult(c).error.message =
                       "Command exited with code "
                       \o (IF exitCode[c] = None THEN "null" ELSE ToString(exitCode[c][1]))

\* A process ended by a signal, with stdout and stderr both written.
C6_Witness ==
    \E c \in Calls :
        /\ RanAndClosed(c)
        /\ exitCode[c] = None
        /\ ~timedOut[c]
        /\ stdout[c] # <<>>
        /\ stderr[c] # <<>>
        /\ ReportedKind(c, "EXECUTION_FAILED")

\* C7: when the process cannot be started the outcome is a SpawnFailed
\* failure whose details are the text of the underlying error, both for the
\* "error" event and for an exception spawn throws, and no timer turns it
\* into a Timeout later.
C7_SpawnFailureIsSpawnFailed ==
    \A c \in Calls :
        /\ FailedToStart(c) =>
               /\ \E e \in SpawnErrors :
                      promise[c] = Rejected(inspectorError("SPAWN_FAILED",
                                       "Failed to spawn command: node", Some(e.message)))
               /\ execResult(c).error.kind = "SPAWN_FAILED"
               /\ timer[c] = "cleared"
               /\ ~timedOut[c]
        /\ SpawnThrew(c) =>
               /\ \E e \in SpawnExceptions :
                      execResult(c) = Err(inspectorError("SPAWN_FAILED",
                                          "Unknown error during command execution",
                                          Some(e.name \o ": " \o e.message)))
               /\ timer[c] = "none"
               /\ ~timedOut[c]

\* The "close" event that follows a failed start has been handled.
C7_Witness ==
    \E c \in Calls :
        /\ proc[c] = "closed"
        /\ exitCode[c] = Some(SpawnFailedCode)
        /\ ReportedKind(c, "SPAWN_FAILED")

\* C8: a call that passes validation spawns exactly one subprocess, whatever
\* its outcome; a call that does not spawns none.
C8_OneSpawnPerCall ==
    \A c \in Calls :
        /\ Len(spawned[c]) = IF pc[c] \in {"awaiting", "returned"} THEN 1 ELSE 0
        /\ Made(c) /\ InputSchema(Tool(c), Raw(c)) => Len(spawned[c]) = 1
        /\ kills[c] <= 1

\* A call that failed to start its process has returned.
C8_Witness ==
    \E c \in Calls :
        /\ pc[c] = "returned"
        /\ FailedToStart(c)
        /\ Len(spawned[c]) = 1

\* C9 as claimed: for each entry of an env mapping the caller supplies, the
\* argument vector holds the adjacent pair -e KEY=VALUE.
C9_Original ==
    \A c \in Calls :
        (Made(c) /\ spawned[c] # <<>> /\ Raw(c).env.t = "obj") =>
            \A i \in 1..Len(Raw(c).env.keys) :
                HasPair(Args(c), "-e", Raw(c).env.keys[i] \o "=" \o Raw(c).env.items[i].s)

\* C9, amended: every tool accepts target, transport and timeout_ms; an env
\* mapping the caller supplies is not rejected and is dropped: the argument
\* vector holds no -e flag.  (buildCliArgs gives the pair -e KEY=VALUE for
\* each entry of the env of the TargetServer it is given; no handler gives it
\* one.)
C9_EnvIsDropped ==
    \A c \in Calls :
        (Made(c) /\ Raw(c).env.t = "obj") =>
            LET env == Raw(c).env
                params == ParseParams(Tool(c), Raw(c))
                withEnv == buildCliArgs(ServiceMethod(Tool(c)),
                               TargetServer(params.target, params.transport, Some(env)),
                               ServiceMethodArgs(Tool(c), params))
            IN  /\ pc[c] = "rejected" <=>
                       ~InputSchema(Tool(c), [Raw(c) EXCEPT !.env = Undefined])
                /\ pc[c] # "rejected" =>
                       /\ \A i \in 1..Len(Args(c)) : Args(c)[i] # "-e"
                       /\ \A i \in 1..Len(env.keys) :
                              /\ ~HasPair(Args(c), "-e", env.keys[i] \o "=" \o env.items[i].s)
                              /\ HasPair(withEnv, "-e", env.keys[i] \o "=" \o env.items[i].s)

\* A call made with an env mapping of two entries has spawned its process.
C9_Witness ==
    \E c \in Calls :
        /\ Made(c)
        /\ Len(Raw(c).env.keys) = 2
        /\ Len(spawned[c]) = 1
        /\ Len(Args(c)) > 0

\* C10: an input whose timeout_ms is no integer in [1000, 300000], whose
\* target is empty or whose transport is none of stdio, sse and http is
\* rejected before the handler runs: no subprocess is spawned and no failure
\* of the pipeline is made; with timeout_ms left out the handler runs with
\* 60000.
C10_InvalidInputIsRejected ==
    \A c \in Calls :
        Made(c) =>
            LET ms == Raw(c).timeout_ms
                badTimeout ==
                    /\ ms.t # "undefined"
                    /\ ~(ms.t = "num" /\ ms.n % 10 = 0
                         /\ ms.n \div 10 >= 1000 /\ ms.n \div 10 <= 300000)
                badTarget == Raw(c).target.t # "str" \/ Raw(c).target.s = ""
                badTransport ==
                    /\ Raw(c).transport.t # "undefined"
                    /\ ~(Raw(c).transport.t = "str"
                         /\ Raw(c).transport.s \in {"stdio", "sse", "http"})
            IN  /\ (badTimeout \/ badTarget \/ badTransport) =>
                       /\ pc[c] = "rejected"
                       /\ spawned[c] = <<>>
                       /\ proc[c] = "none"
                       /\ ~Reported(c)
                       /\ response[c] = None
                /\ (ms.t = "undefined" /\ pc[c] # "rejected") => timeoutMs[c] = 60000
                /\ (ms.t = "num" /\ pc[c] # "rejected") => 10 * timeoutMs[c] = ms.n

\* A call with timeout_ms = 300001 was rejected.
C10_Witness ==
    \E c \in Calls :
        /\ Made(c)
        /\ pc[c] = "rejected"
        /\ Raw(c).timeout_ms = Num(MaxTimeoutMs + 1)
        /\ Raw(c).target = Str("node server.js")
        /\ Raw(c).transport = Str("sse")

\* ------------------------------------------- claims about the service

\* The call of the service that caller c made, and what it spawned.
ServiceIn(c) == request[c][1]

Spawn(c) == spawned[c][1]

\* The positions of args that hold s.
Positions(args, s) == {i \in 1..Len(args) : args[i] = s}

C12_ToolArgsAsFlags ==
    \A c \in Calls :
        (spawned[c] # <<>> /\ Spawn(c).command = "node"
                          /\ ServiceIn(c).method = "tools/call") =>
            LET args == Spawn(c).args
                A == IF ServiceIn(c).arguments = None
                     THEN EmptyObj ELSE ServiceIn(c).arguments[1]
                text(v) == IF v.t = "str" THEN v.s ELSE Stringify(v, "", 0)
            IN  \E p \in 1..Len(args) :
                    /\ Positions(args, "--tool-name") = {p}
                    /\ args[p + 1] = ServiceIn(c).name
                    /\ Len(args) = p + 1 + 2 * Len(A.keys)
                    /\ Positions(args, "--tool-arg") =
                           {p + 2 * i : i \in 1..Len(A.keys)}
                    /\ \A i \in 1..Len(A.keys) :
                           args[p + 2 * i + 1] = A.keys[i] \o "=" \o text(A.items[i])

\* A tool call was made with a string, a number and an object as arguments:
\* the vector ends with city=Tokyo, days=3 and opts={"units":"metric"}.
C12_Witness ==
    \E c \in Calls :
        /\ spawned[c] # <<>>
        /\ Spawn(c).command = "node"
        /\ ServiceIn(c).method = "tools/call"
        /\ HasPair(Spawn(c).args, "--tool-name", "get_weather")
        /\ HasPair(Spawn(c).args, "--tool-arg", "city=Tokyo")
        /\ HasPair(Spawn(c).args, "--tool-arg", "days=3")
        /\ HasPair(Spawn(c).args, "--tool-arg", "opts={\"units\":\"metric\"}")

\* ------------------------------------------- claims about the decoder

\* The stdout execCommand captured for call c.
Captured(c) == Flatten(outChunks[c])

\* C13: when execCommand succeeded (exit code 0), captured stdout that is
\* empty or only whitespace decodes to {} and gives no PARSE_FAILED; stdout
\* whose trimmed text is JSON decodes to its value; stdout whose trimmed text
\* is not empty and no JSON gives PARSE_FAILED with the message of the
\* SyntaxError as details.
C13_DecodeCapturedStdout ==
    \A c \in Calls :
        promise[c].state = "fulfilled" =>
            LET text == Trim(Captured(c))
                parsed == JsonParse(text)
                r == cliResult(c)
            IN  /\ exitCode[c] = Some(0)
                /\ text = <<>> => r = Ok(EmptyObj)
                /\ (text # <<>> /\ parsed.ok) => r = Ok(parsed.v)
                /\ Captured(c) = <<"{", "\"tools\"", ":", "[", "1", ",", "2", "]", "}", "\n">>
                       => r = Ok(Obj(<<"tools">>, <<Arr(<<Num(1), Num(2)>>)>>))
                /\ (text # <<>> /\ ~parsed.ok) =>
                       /\ ~r.ok
                       /\ r.error.kind = "PARSE_FAILED"
                       /\ r.error.message = "Failed to parse JSON response"
                       /\ r.error.details =
                              Some(SyntaxErrorMessage(text, parsed.next))
                /\ text = <<"not-json">> =>
                       r.error.details =
                           Some("Unexpected token not-json in JSON at position 0")
                /\ response[c] = Some(ToolResponse(r))

\* A process printed two newlines and nothing else and exited with code 0:
\* the handler returned {} and no failure.
C13_Witness ==
    \E c \in Calls :
        /\ promise[c].state = "fulfilled"
        /\ Captured(c) = <<"\n", "\n">>
        /\ cliResult(c) = Ok(EmptyObj)
        /\ response[c] # None
        /\ ~Flagged(response[c][1])
        /\ response[c][1].content[1].text = "{}"

\* C14: formatError gives "Error [<kind>]: <message>", followed by a line
\* "Details: <details>" only when details is given (and, in the code, not
\* empty); the text is a function of the failure alone: two handlers that
\* got the same failure return the same text.
C14_FormatError ==
    \A c \in Calls :
        response[c] # None =>
            LET error == promise[c].reason
                text == response[c][1].content[1].text
                head == "Error [" \o error.kind \o "]: " \o error.message
            IN  /\ error.details \in {None, Some("")} => text = head
                /\ error.details \notin {None, Some("")} =>
                       text = head \o "\nDetails: " \o error.details[1]
                /\ \A d \in Calls :
                       (response[d] # None /\ promise[d].reason = error) =>
                           response[d][1].content[1].text = text

\* Two handlers got the same TIMEOUT failure, whose details are the empty
\* string, and returned its text, which has no details line.
C14_Witness ==
    /\ response[1] # None /\ response[2] # None
    /\ promise[1].reason = promise[2].reason
    /\ promise[1].reason.details = Some("")
    /\ response[1][1].content[1].text = "Error [TIMEOUT]: Command exited with code 1"

\* ------------------------------------------- claims about concurrent calls

\* All there is of call c.
CallState(c) ==
    <<pc[c], request[c], spawned[c], timeoutMs[c], proc[c], exitCode[c],
      stdout[c], stderr[c], timedOut[c], timer[c], kills[c], promise[c],
      response[c], outChunks[c], errChunks[c], stderrAtKill[c]>>

\* The outcome of call c as its own subprocess and its own timer make it.
OwnOutcome(c) ==
    IF FailedToStart(c)
    THEN Rejected(inspectorError("SPAWN_FAILED", "Failed to spawn command: node",
                                 Some("spawn node ENOENT")))
    ELSE IF timer[c] = "fired"
    THEN Rejected(inspectorError("TIMEOUT",
             "Command timed out after " \o ToString(CallTimeout(Tool(c), Raw(c))) \o "ms",
             Some(Join(Flatten(errChunks[c])))))
    ELSE IF exitCode[c] # Some(0)
    THEN Rejected(inspectorError("EXECUTION_FAILED",
             "Command exited with code " \o CodeText(exitCode[c]),
             Some(Join(IF errChunks[c] # <<>>
                       THEN Flatten(errChunks[c]) ELSE Flatten(outChunks[c])))))
    ELSE Fulfilled(Flatten(outChunks[c]))

\* The buffers, the flag and the outcome of call c are those of its own
\* events.
OwnEventsOnly(c) ==
    /\ stdout[c] = Flatten(outChunks[c])
    /\ stderr[c] = Flatten(errChunks[c])
    /\ timedOut[c] <=> timer[c] = "fired"
    /\ kills[c] > 0 => timer[c] = "fired"
    /\ Reported(c) =>
           /\ promise[c] = OwnOutcome(c)
           /\ response[c] = Some(ToolResponse(andThenDecode(fromPromise(OwnOutcome(c)))))

\* C15: with calls in flight together and their timers and events in any
\* order, every step changes one call and leaves all there is of every
\* other call as it was, and the buffers, the timed-out flag and the outcome
\* of each call are those its own subprocess and its own timer make.
C15_CallsAreIndependent ==
    /\ [](\A c \in Calls : OwnEventsOnly(c))
    /\ [][\E c \in Calls : \A d \in Calls \ {c} : CallState(d)' = CallState(d)]_vars

\* Two calls are in flight: the timer of the first has fired after its
\* process wrote to stderr, while the second, made with another timeout, has
\* received stdout and its timer is still set.
C15_Witness ==
    /\ pc[1] = "awaiting" /\ pc[2] = "awaiting"
    /\ timer[1] = "fired" /\ kills[1] = 1 /\ timedOut[1] /\ ~timedOut[2]
    /\ stderr[1] = <<"ECONNREFUSED", "\n">> /\ stdout[1] = <<>>
    /\ timer[2] = "armed" /\ stderr[2] = <<>>
    /\ stdout[2] = <<"{", "}">>
    /\ timeoutMs[1] # timeoutMs[2]

\* ------------------------------------------- claims about failures

\* The failure made where the pipeline of call c failed: the value execCommand
\* rejected with or, for a rejection that is no InspectorError, the
\* SPAWN_FAILED its mapper made of it; after execCommand succeeded, the
\* PARSE_FAILED of parseJson.
FailureAtOrigin(c) ==
    IF promise[c].state = "rejected"
    THEN IF isInspectorError(promise[c].reason)
         THEN promise[c].reason
         ELSE inspectorError("SPAWN_FAILED", "Unknown error during command execution",
                             Some(ErrorToString(promise[c].reason)))
    ELSE parseJson(DecodedText(c)).error

\* C16: the failure a handler gets is the one made at its origin, unchanged,
\* and its kind is SPAWN_FAILED, EXECUTION_FAILED, TIMEOUT or PARSE_FAILED,
\* never INVALID_RESPONSE or CONNECTION_FAILED; when execCommand failed
\* nothing is decoded: the failure is execCommand's whatever stdout holds.
C16_FailuresPassUnchanged ==
    \A c \in Calls :
        (Reported(c) /\ PipelineFailed(c)) =>
            LET r == cliResult(c)
            IN  /\ ~r.ok
                /\ r.error = FailureAtOrigin(c)
                /\ r.error.kind \in
                       {"SPAWN_FAILED", "EXECUTION_FAILED", "TIMEOUT", "PARSE_FAILED"}
                /\ promise[c].state = "rejected" =>
                       /\ r.error.kind # "PARSE_FAILED"
                       /\ r = execResult(c)
                /\ r.error.kind = "PARSE_FAILED" <=> promise[c].state = "fulfilled"
                /\ response[c] =
                       Some([content |-> <<[type |-> "text",
                                           text |-> formatError(FailureAtOrigin(c))]>>,
                             isError |-> TRUE])

\* A process printed a text that is no JSON and exited with code 1: the
\* handler got EXECUTION_FAILED with that text as details, and no
\* PARSE_FAILED.
C16_Witness ==
    \E c \in Calls :
        /\ Reported(c)
        /\ Captured(c) = <<"not-json">>
        /\ stderr[c] = <<>>
        /\ exitCode[c] = Some(1)
        /\ cliResult(c).error =
               inspectorError("EXECUTION_FAILED", "Command exited with code 1",
                              Some("not-json"))
        /\ response[c] # None

\* C17: execCommand reports at most one outcome and the first one stands:
\* once its promise is settled no step changes the promise or the response
\* the handler returned, no SIGTERM is sent, and the timer is not set any
\* more (it was cleared, had fired before, or was never set).
C17_FirstOutcomeStands ==
    /\ [](\A c \in Calls : Reported(c) => timer[c] # "armed")
    /\ [][\A c \in Calls :
             Reported(c) =>
                 /\ promise'[c] = promise[c]
                 /\ response'[c] = response[c]
                 /\ kills'[c] = kills[c]
                 /\ timer'[c] = timer[c]
                 /\ timedOut'[c] = timedOut[c]]_vars

\* A process failed to start: SPAWN_FAILED was reported at its "error"
\* event, the timer was cleared, and the "close" event that followed changed
\* nothing.
C17_Witness ==
    \E c \in Calls :
        /\ proc[c] = "closed"
        /\ exitCode[c] = Some(SpawnFailedCode)
        /\ ReportedKind(c, "SPAWN_FAILED")
        /\ timer[c] = "cleared"
        /\ kills[c] = 0
        /\ pc[c] = "returned"

====
